---- MODULE Spec2Model ----
\* Model of app.py (Fraud_DA): the lazy page resolver (_lazy_run), the three
\* page renderers, the presence probes (HAS_TX_PRED, HAS_APP2, HAS_LEGACY)
\* and the menu and router of main.  One run of the script is: Probe (module
\* top level), then BuildMenu and Route (the two halves of main, before and
\* after the menu widget returns the user's choice).
EXTENDS Integers, Sequences, FiniteSets, TLC

\* ---------------- bounds of the environments explored ----------------
MaxFiles == 2          \* at most this many candidate script files exist on disk
MaxModules == 1        \* at most this many candidate page modules are importable

\* ---------------- names taken from the source ----------------
M_TX == "src.pages.transaction_predictor"
M_APP2 == "src.pages.fraud_detection_app2"
M_APP2_UPPER == "src.pages.Fraud_Detection_App2"
M_LEGACY == "src.pages.fraud_detection"

ModuleNames == {M_TX, M_APP2, M_APP2_UPPER, M_LEGACY}

\* func_candidates default of _lazy_run
DefaultFuncs ==
  <<"transaction_predictor", "fraud_detection_app2", "main", "run", "app", "render", "show">>

\* func_candidates passed by render_fraud_detection_app2
App2Funcs == <<"fraud_detection_app2", "main", "run", "app", "render", "show">>

\* func_candidates passed by render_fraud_detection_legacy
LegacyFuncs == <<"fraud_detection_app", "main", "run", "app", "render", "show">>

\* file_candidates default of _lazy_run (paths relative to ROOT)
DefaultFiles ==
  << "src/pages/03_Transaction_Predictor.py",
     "pages/03_Transaction_Predictor.py",
     "03_Transaction_Predictor.py",
     "src/pages/transaction_predictor.py",
     "pages/transaction_predictor.py",
     "src/pages/fraud_detection_app2.py",
     "src/pages/Fraud_Detection_App2.py",
     "pages/fraud_detection_app2.py",
     "pages/Fraud_Detection_App2.py",
     "fraud_detection_app2.py",
     "Fraud_Detection_App2.py",
     "src/pages/fraud_detection.py",
     "pages/fraud_detection.py",
     "fraud_detection.py" >>

\* the path lists handed to _exists_any by the three probes
TxPredProbeFiles ==
  << "src/pages/03_Transaction_Predictor.py",
     "pages/03_Transaction_Predictor.py",
     "03_Transaction_Predictor.py",
     "src/pages/transaction_predictor.py",
     "pages/transaction_predictor.py" >>

App2ProbeFiles ==
  << "src/pages/fraud_detection_app2.py",
     "src/pages/Fraud_Detection_App2.py",
     "pages/fraud_detection_app2.py",
     "pages/Fraud_Detection_App2.py",
     "fraud_detection_app2.py",
     "Fraud_Detection_App2.py" >>

LegacyProbeFiles ==
  << "src/pages/fraud_detection.py",
     "pages/fraud_detection.py",
     "fraud_detection.py" >>

\* the fixed text of the final st.error of _lazy_run, as the names it lists
NotFoundReport ==
  << "src.pages.transaction_predictor", "03_Transaction_Predictor.py",
     "src.pages.fraud_detection_app2", "fraud_detection_app2.py",
     "src.pages.fraud_detection" >>

\* menu labels of main
L_HOME == "Home"
L_LEGACY == "Fraud Detection"
L_APP2 == "Fraud Detection (RAW/PCA)"
L_TX == "Transaction Predictor"
L_ABOUT == "About"

\* ---------------- helpers ----------------
Range(s) == {s[i] : i \in 1..Len(s)}

AllFiles == Range(DefaultFiles)

\* files that live inside the package directory src/pages
PackageFiles ==
  { "src/pages/03_Transaction_Predictor.py", "src/pages/transaction_predictor.py",
    "src/pages/fraud_detection_app2.py", "src/pages/Fraud_Detection_App2.py",
    "src/pages/fraud_detection.py" }

\* ROOT is on sys.path, so ROOT/src/pages/<m>.py makes src.pages.<m> importable
FileOfModule(m) ==
  CASE m = M_TX -> "src/pages/transaction_predictor.py"
    [] m = M_APP2 -> "src/pages/fraud_detection_app2.py"
    [] m = M_APP2_UPPER -> "src/pages/Fraud_Detection_App2.py"
    [] OTHER -> "src/pages/fraud_detection.py"

\* ---------------- inputs ----------------
\* sets of callable names a page module may expose
Exposures == { {}, {"fraud_detection_app"}, {"show", "transaction_predictor"} }

\* what importing a present module and calling its entry function does
ModuleBehaviours == {"returns", "raises", "exits", "importRaises"}

\* what executing an existing script with runpy does
FileBehaviours == {"returns", "raises", "exits"}

\* values the menu widget may hand back (a stale or foreign value included)
Choices == {L_HOME, L_LEGACY, L_APP2, L_TX, L_ABOUT, "Settings"}

Pages == {"legacy", "app2", "txpred"}

\* ---------------- state ----------------
VARIABLES
  pkg,          \* the package src.pages is importable
  present,      \* page modules that are importable
  exposes,      \* callables each page module exposes (the pages share one convention)
  files,        \* candidate script files that exist on disk
  pc,           \* "start", "menu", "shown", "rendered", "crashed"
  HAS_LEGACY, HAS_APP2, HAS_TX_PRED,
  options,      \* the menu built by main
  choice,       \* the value returned by sidebar_menu
  invoked,      \* renderers called by the router in this run
  mbeh,         \* behaviour of the page module in this run
  log,          \* what the resolver did in this run, in order
  outcome,      \* how the run ended
  report,       \* names listed by the "not found" message, if shown
  propagated,   \* exception that escaped to the host, or "none"
  ran           \* page modules imported and page scripts executed by this process

vars == << pkg, present, exposes, files, pc, HAS_LEGACY, HAS_APP2, HAS_TX_PRED,
           options, choice, invoked, mbeh, log, outcome, report, propagated, ran >>

env == << pkg, present, exposes, files >>

Ev(e, w) == [ev |-> e, what |-> w]

Result(l, o, r, x) == [log |-> l, outcome |-> o, report |-> r, exc |-> x]

\* ---------------- _lazy_run ----------------
\* the loop over func_candidates: the first name that is callable in the module, or ""
RECURSIVE ScanFuncs(_, _, _)
ScanFuncs(func_candidates, exposed, i) ==
  IF i > Len(func_candidates) THEN ""
  ELSE IF func_candidates[i] \in exposed THEN func_candidates[i]
  ELSE ScanFuncs(func_candidates, exposed, i + 1)

\* step 1 of _lazy_run: import the module and call its first recognised function;
\* done is TRUE when the function returned or a non-Exception escaped
ImportStep(module_name, func_candidates, mb) ==
  IF module_name \notin present
  THEN [done |-> FALSE, res |-> Result(<<Ev("import", module_name)>>, "none", <<>>, "none")]
  ELSE IF mb = "importRaises"
  THEN [done |-> FALSE,
        res |-> Result(<<Ev("import", module_name), Ev("warn", module_name)>>,
                       "none", <<>>, "none")]
  ELSE LET fname == ScanFuncs(func_candidates, exposes[module_name], 1) IN
    IF fname = ""
    THEN [done |-> FALSE, res |-> Result(<<Ev("import", module_name)>>, "none", <<>>, "none")]
    ELSE CASE mb = "returns" ->
                [done |-> TRUE,
                 res |-> Result(<<Ev("import", module_name), Ev("call", fname)>>,
                                "Invoked", <<>>, "none")]
           [] mb = "raises" ->
                [done |-> FALSE,
                 res |-> Result(<<Ev("import", module_name), Ev("call", fname),
                                  Ev("warn", module_name)>>, "none", <<>>, "none")]
           [] OTHER ->
                [done |-> TRUE,
                 res |-> Result(<<Ev("import", module_name), Ev("call", fname)>>,
                                "Propagated", <<>>, "SystemExit")]

\* variant of the file loop that gives up at the first script that raises
RECURSIVE RunFilesStopAtFailure(_, _, _)
RunFilesStopAtFailure(file_candidates, i, fb) ==
  IF i > Len(file_candidates)
  THEN Result(<<Ev("notfound", "")>>, "NotFound", NotFoundReport, "none")
  ELSE LET path == file_candidates[i] IN
    IF path \notin files
    THEN LET rest == RunFilesStopAtFailure(file_candidates, i + 1, fb) IN
         [rest EXCEPT !.log = <<Ev("check", path)>> \o @]
    ELSE CASE fb[path] = "returns" ->
                Result(<<Ev("check", path), Ev("exec", path)>>, "Executed", <<>>, "none")
           [] fb[path] = "raises" ->
                Result(<<Ev("check", path), Ev("exec", path), Ev("error", path)>>,
                       "ExecutionFailure", <<>>, "none")
           [] OTHER ->
                Result(<<Ev("check", path), Ev("exec", path)>>,
                       "Propagated", <<>>, "SystemExit")

\* step 2 of _lazy_run: the loop over file_candidates and the final st.error
RECURSIVE RunFiles(_, _, _)
RunFiles(file_candidates, i, fb) ==
  IF i > Len(file_candidates)
  THEN Result(<<Ev("notfound", "")>>, "NotFound", NotFoundReport, "none")
  ELSE LET path == file_candidates[i] IN
    IF path \notin files
    THEN LET rest == RunFiles(file_candidates, i + 1, fb) IN
         [rest EXCEPT !.log = <<Ev("check", path)>> \o @]
    ELSE CASE fb[path] = "returns" ->
                Result(<<Ev("check", path), Ev("exec", path)>>, "Executed", <<>>, "none")
           [] fb[path] = "raises" ->
                LET rest == RunFiles(file_candidates, i + 1, fb) IN
                [rest EXCEPT !.log = <<Ev("check", path), Ev("exec", path),
                                       Ev("error", path)>> \o @]
           [] OTHER ->
                Result(<<Ev("check", path), Ev("exec", path)>>,
                       "Propagated", <<>>, "SystemExit")

lazy_run(module_name, func_candidates, file_candidates, mb, fb) ==
  LET s1 == ImportStep(module_name, func_candidates, mb) IN
  IF s1.done THEN s1.res
  ELSE LET s2 == RunFiles(file_candidates, 1, fb) IN
       [s2 EXCEPT !.log = s1.res.log \o @]

\* ---------------- page renderers ----------------
render_transaction_predictor(mb, fb) ==
  lazy_run(M_TX, DefaultFuncs, DefaultFiles, mb, fb)

render_fraud_detection_app2(mb, fb) ==
  LET first == lazy_run(M_APP2, App2Funcs, DefaultFiles, mb, fb) IN
  IF first.exc = "Exception"
  THEN LET second == lazy_run(M_APP2_UPPER, App2Funcs, DefaultFiles, mb, fb) IN
       [second EXCEPT !.log = first.log \o @]
  ELSE first

render_fraud_detection_legacy(mb, fb) ==
  lazy_run(M_LEGACY, LegacyFuncs, DefaultFiles, mb, fb)

Render(target, mb, fb) ==
  CASE target = "render_fraud_detection_legacy" -> render_fraud_detection_legacy(mb, fb)
    [] target = "render_fraud_detection_app2" -> render_fraud_detection_app2(mb, fb)
    [] target = "render_transaction_predictor" -> render_transaction_predictor(mb, fb)
    [] target = "show_welcome_page" -> Result(<<>>, "Welcome", <<>>, "none")
    [] target = "show_about_page" -> Result(<<>>, "About", <<>>, "none")
    [] OTHER -> Result(<<>>, "Unavailable", <<>>, "none")

\* ---------------- presence probes ----------------
RECURSIVE exists_any(_, _)
exists_any(paths, i) ==
  IF i > Len(paths) THEN FALSE
  ELSE IF paths[i] \in files THEN TRUE
  ELSE exists_any(paths, i + 1)

\* variant of the lookup that imports the module to see whether it is there
find_spec_by_import(m) == [found |-> m \in present, executed |-> {m} \cap present]

\* importlib.util.find_spec on a page module whose parent package is importable:
\* whether a spec was found, and the page code the lookup executed
find_spec(m) == [found |-> m \in present, executed |-> {}]

\* ---------------- main: menu and router ----------------
\* variant of the menu that appends the RAW/PCA entry whatever its flag says
MenuOptionsApp2Always(hasLegacy, hasApp2, hasTxPred) ==
  LET o1 == <<L_HOME>>
      o2 == IF hasLegacy THEN Append(o1, L_LEGACY) ELSE o1
      o3 == Append(o2, L_APP2)
      o4 == IF hasTxPred THEN Append(o3, L_TX) ELSE o3
  IN Append(o4, L_ABOUT)

MenuOptions(hasLegacy, hasApp2, hasTxPred) ==
  LET o1 == <<L_HOME>>
      o2 == IF hasLegacy THEN Append(o1, L_LEGACY) ELSE o1
      o3 == IF hasApp2 THEN Append(o2, L_APP2) ELSE o2
      o4 == IF hasTxPred THEN Append(o3, L_TX) ELSE o3
  IN Append(o4, L_ABOUT)

\* variant of the router that does not re-check the flag of the legacy page
RouterTargetNoLegacyFlag(ch, hasLegacy, hasApp2, hasTxPred) ==
  IF ch = L_HOME THEN "show_welcome_page"
  ELSE IF ch = L_LEGACY THEN "render_fraud_detection_legacy"
  ELSE IF ch = L_APP2 /\ hasApp2 THEN "render_fraud_detection_app2"
  ELSE IF ch = L_TX /\ hasTxPred THEN "render_transaction_predictor"
  ELSE IF ch = L_ABOUT THEN "show_about_page"
  ELSE "info"

RouterTarget(ch, hasLegacy, hasApp2, hasTxPred) ==
  IF ch = L_HOME THEN "show_welcome_page"
  ELSE IF ch = L_LEGACY /\ hasLegacy THEN "render_fraud_detection_legacy"
  ELSE IF ch = L_APP2 /\ hasApp2 THEN "render_fraud_detection_app2"
  ELSE IF ch = L_TX /\ hasTxPred THEN "render_transaction_predictor"
  ELSE IF ch = L_ABOUT THEN "show_about_page"
  ELSE "info"

\* page code run by a resolution: present modules imported, scripts executed
CodeRun(l) ==
  {l[i].what : i \in {j \in 1..Len(l) :
       \/ l[j].ev = "exec"
       \/ l[j].ev = "import" /\ l[j].what \in present}}

\* the behaviour of the page module matters only when one was imported
UsedBehaviour(l, mb) ==
  IF \E i \in 1..Len(l) : l[i].ev = "import" /\ l[i].what \in present THEN mb ELSE "n/a"

\* ---------------- specification ----------------
Init ==
  /\ pkg \in BOOLEAN
  /\ present \in {S \in SUBSET ModuleNames : Cardinality(S) <= MaxModules}
  /\ exposes \in {[m \in ModuleNames |-> IF m \in present THEN e ELSE {}] : e \in Exposures}
  /\ files \in {F \in SUBSET AllFiles : Cardinality(F) <= MaxFiles}
  /\ ~pkg => present = {} /\ files \cap PackageFiles = {}
  /\ \A m \in ModuleNames : FileOfModule(m) \in files => m \in present
  /\ pc = "start"
  /\ HAS_LEGACY = FALSE /\ HAS_APP2 = FALSE /\ HAS_TX_PRED = FALSE
  /\ options = <<>>
  /\ choice = ""
  /\ invoked = <<>>
  /\ mbeh = "n/a"
  /\ log = <<>>
  /\ outcome = "none"
  /\ report = <<>>
  /\ propagated = "none"
  /\ ran = {}

\* module top level: the three HAS_ flags; find_spec raises when src.pages is missing
Probe ==
  /\ pc = "start"
  /\ IF ~pkg
     THEN /\ pc' = "crashed"
          /\ propagated' = "ModuleNotFoundError"
          /\ UNCHANGED << HAS_LEGACY, HAS_APP2, HAS_TX_PRED, ran >>
     ELSE /\ pc' = "menu"
          /\ HAS_TX_PRED' = (find_spec(M_TX).found \/ exists_any(TxPredProbeFiles, 1))
          /\ HAS_APP2' = (find_spec(M_APP2).found \/ find_spec(M_APP2_UPPER).found
                            \/ exists_any(App2ProbeFiles, 1))
          /\ HAS_LEGACY' = (find_spec(M_LEGACY).found \/ exists_any(LegacyProbeFiles, 1))
          /\ ran' = ran \cup find_spec(M_TX).executed \cup find_spec(M_APP2).executed
                        \cup find_spec(M_APP2_UPPER).executed \cup find_spec(M_LEGACY).executed
          /\ UNCHANGED propagated
  /\ UNCHANGED << env, options, choice, invoked, mbeh, log, outcome, report >>

\* main, up to the menu widget
BuildMenu ==
  /\ pc = "menu"
  /\ pc' = "shown"
  /\ options' = MenuOptions(HAS_LEGACY, HAS_APP2, HAS_TX_PRED)
  /\ UNCHANGED << env, HAS_LEGACY, HAS_APP2, HAS_TX_PRED, choice, invoked, mbeh, log,
                  outcome, report, propagated, ran >>

Finish(target, mb, fb) ==
  LET r == Render(target, mb, fb) IN
  /\ invoked' = IF target = "info" THEN <<>> ELSE <<target>>
  /\ mbeh' = UsedBehaviour(r.log, mb)
  /\ log' = r.log
  /\ outcome' = r.outcome
  /\ report' = r.report
  /\ propagated' = r.exc
  /\ ran' = ran \cup CodeRun(r.log)

\* the module a renderer imports first, "" for the pages that resolve nothing
FirstModule(target) ==
  CASE target = "render_fraud_detection_legacy" -> M_LEGACY
    [] target = "render_fraud_detection_app2" -> M_APP2
    [] target = "render_transaction_predictor" -> M_TX
    [] OTHER -> ""

\* the behaviours that can make a difference to a call of target
ModuleInputs(target) ==
  IF FirstModule(target) \in present THEN ModuleBehaviours ELSE {"returns"}

FileInputs(target) ==
  IF FirstModule(target) = "" THEN {[f \in files |-> "returns"]}
  ELSE [files -> FileBehaviours]

\* main, from the value the menu widget returns to the end of the router
Route ==
  /\ pc = "shown"
  /\ \E ch \in Choices :
       LET target == RouterTarget(ch, HAS_LEGACY, HAS_APP2, HAS_TX_PRED) IN
       \E mb \in ModuleInputs(target), fb \in FileInputs(target) :
         /\ choice' = ch
         /\ Finish(target, mb, fb)
  /\ pc' = "rendered"
  /\ UNCHANGED << env, HAS_LEGACY, HAS_APP2, HAS_TX_PRED, options >>

PageLabel(p) ==
  CASE p = "legacy" -> L_LEGACY
    [] p = "app2" -> L_APP2
    [] OTHER -> L_TX

PageRenderer(p) ==
  CASE p = "legacy" -> "render_fraud_detection_legacy"
    [] p = "app2" -> "render_fraud_detection_app2"
    [] OTHER -> "render_transaction_predictor"

\* a renderer called on its own, as a caller of the resolver does
Resolve ==
  /\ pc = "start"
  /\ \E p \in Pages :
       \E mb \in ModuleInputs(PageRenderer(p)), fb \in FileInputs(PageRenderer(p)) :
         /\ choice' = PageLabel(p)
         /\ Finish(PageRenderer(p), mb, fb)
  /\ pc' = "resolved"
  /\ UNCHANGED << env, HAS_LEGACY, HAS_APP2, HAS_TX_PRED, options >>

\* the process ends and is started again on the same file system
Restart ==
  /\ pc \in {"rendered", "crashed", "resolved"}
  /\ pc' = "start"
  /\ HAS_LEGACY' = FALSE /\ HAS_APP2' = FALSE /\ HAS_TX_PRED' = FALSE
  /\ options' = <<>>
  /\ choice' = ""
  /\ invoked' = <<>>
  /\ mbeh' = "n/a"
  /\ log' = <<>>
  /\ outcome' = "none"
  /\ report' = <<>>
  /\ propagated' = "none"
  /\ ran' = {}
  /\ UNCHANGED env

Next == Probe \/ BuildMenu \/ Route \/ Restart

Spec == Init /\ [][Next]_vars

NextResolve == Resolve \/ Restart

SpecResolve == Init /\ [][NextResolve]_vars

TypeOK ==
  /\ pc \in {"start", "menu", "shown", "rendered", "crashed", "resolved"}
  /\ outcome \in {"none", "Invoked", "Executed", "NotFound", "Propagated",
                  "Welcome", "About", "Unavailable"}
  /\ propagated \in {"none", "SystemExit", "ModuleNotFoundError"}

\* ---------------- vocabulary of the properties ----------------
\* the candidates that belong to each page
PageModules(p) ==
  CASE p = "legacy" -> <<M_LEGACY>>
    [] p = "app2" -> <<M_APP2, M_APP2_UPPER>>
    [] OTHER -> <<M_TX>>

PageFuncs(p) ==
  CASE p = "legacy" -> LegacyFuncs
    [] p = "app2" -> App2Funcs
    [] OTHER -> DefaultFuncs

PageFiles(p) ==
  CASE p = "legacy" -> LegacyProbeFiles
    [] p = "app2" -> App2ProbeFiles
    [] OTHER -> TxPredProbeFiles

PageFlag(p) ==
  CASE p = "legacy" -> HAS_LEGACY
    [] p = "app2" -> HAS_APP2
    [] OTHER -> HAS_TX_PRED

IsPrefix(s, t) == Len(s) <= Len(t) /\ \A i \in 1..Len(s) : s[i] = t[i]

Whats(l) == [i \in 1..Len(l) |-> l[i].what]

IsExec(e) == e.ev = "exec"
IsError(e) == e.ev = "error"
IsAttempt(e) == e.ev \in {"import", "check"}
Exists(path) == path \in files

Execs == Whats(SelectSeq(log, IsExec))
Errors == Whats(SelectSeq(log, IsError))
Attempted == Whats(SelectSeq(log, IsAttempt))
ExistingCandidates == SelectSeq(DefaultFiles, Exists)

FilePhaseReached == \E i \in 1..Len(log) : log[i].ev \in {"check", "notfound"}

\* the router called the renderer of page p
Routed(p) == pc = "rendered" /\ invoked = <<PageRenderer(p)>>

\* ---------------- C1 ----------------
\* C1 (as stated): in the file fallback only the first existing file candidate is
\* attempted; once its execution has raised and the error is reported, no later
\* candidate is executed and no "not found" message follows.
C1_StopsAfterFirstFailure ==
  pc = "rendered" =>
    \A i \in 1..Len(log) : log[i].ev = "error" =>
      \A j \in (i + 1)..Len(log) : log[j].ev \notin {"exec", "notfound"}

\* C1 (amended): the existing file candidates are executed in candidate order;
\* every failure is reported right after the execution that raised and the
\* resolver goes on to the next existing candidate; it stops at the first
\* existing candidate whose execution does not raise an error, and when every
\* existing candidate has raised (or none exists) the "not found" message ends
\* the resolution.
C1_ContinuesAfterFailure ==
  (pc = "rendered" /\ FilePhaseReached) =>
    /\ IsPrefix(Execs, ExistingCandidates)
    /\ IsPrefix(Errors, Execs)
    /\ \A i \in 2..Len(log) : log[i].ev = "error" => log[i - 1] = Ev("exec", log[i].what)
    /\ Len(Errors) = Len(Execs) =>
         /\ Execs = ExistingCandidates
         /\ outcome = "NotFound"
         /\ log[Len(log)].ev = "notfound"
    /\ Len(Errors) < Len(Execs) =>
         /\ Len(Errors) = Len(Execs) - 1
         /\ outcome \in {"Executed", "Propagated"}
         /\ log[Len(log)] = Ev("exec", Execs[Len(Execs)])

\* a script raised, its failure was reported, and a later candidate was executed
C1_Witness ==
  /\ pc = "rendered"
  /\ \E i \in 1..Len(log) : \E j \in (i + 1)..Len(log) :
       log[i].ev = "error" /\ log[j].ev = "exec"

\* ---------------- C2 ----------------
\* C2: when the first module candidate of the RAW/PCA page does not exist and the
\* second exists and exposes a recognised entry function, the resolution imports
\* the second module, calls that function, ends Invoked when the function returns,
\* and shows no warning for the first.
C2_SecondModuleCandidateUsed ==
  ( /\ Routed("app2")
    /\ M_APP2 \notin present
    /\ M_APP2_UPPER \in present
    /\ ScanFuncs(App2Funcs, exposes[M_APP2_UPPER], 1) # "" ) =>
    /\ Ev("import", M_APP2_UPPER) \in Range(log)
    /\ Ev("call", ScanFuncs(App2Funcs, exposes[M_APP2_UPPER], 1)) \in Range(log)
    /\ mbeh = "returns" => outcome = "Invoked"
    /\ Ev("warn", M_APP2) \notin Range(log)

\* ---------------- C3 ----------------
\* C3: a page none of whose module candidates and none of whose file candidates
\* exists resolves to NotFound, and the report lists the candidates that were
\* attempted, each once, in the order of the attempts.
C3_NotFoundListsAttempts ==
  \A p \in Pages :
    ( /\ pc = "resolved"
      /\ invoked = <<PageRenderer(p)>>
      /\ Range(PageModules(p)) \cap present = {}
      /\ Range(PageFiles(p)) \cap files = {} ) =>
      /\ outcome = "NotFound"
      /\ report = Attempted

\* ---------------- C4 ----------------
\* C4: when the first module candidate of a page exists, imports and exposes a
\* recognised function, the resolution calls it and ends Invoked without
\* attempting any file candidate, whatever the function does.
C4_ShortCircuit ==
  \A p \in Pages :
    ( /\ Routed(p)
      /\ PageModules(p)[1] \in present
      /\ ScanFuncs(PageFuncs(p), exposes[PageModules(p)[1]], 1) # ""
      /\ mbeh \in {"returns", "raises", "exits"} ) =>
      /\ outcome = "Invoked"
      /\ Attempted = <<PageModules(p)[1]>>
      /\ Execs = <<>>

\* ---------------- C5 ----------------
\* C5: no exception of probing, resolution or dispatch reaches the host.
C5_NothingPropagates == propagated = "none"

\* ---------------- C6 ----------------
\* C6: dispatching the label of an optional page that is shown in the menu never
\* ends with the "Could not find a runnable target" outcome.
C6_NoDeadMenuEntry ==
  ( /\ pc = "rendered"
    /\ choice \in {L_LEGACY, L_APP2, L_TX}
    /\ choice \in Range(options) ) => outcome # "NotFound"

\* ---------------- C7 ----------------
KeptInMenu(label) ==
  \/ label \in {L_HOME, L_ABOUT}
  \/ label = L_LEGACY /\ HAS_LEGACY
  \/ label = L_APP2 /\ HAS_APP2
  \/ label = L_TX /\ HAS_TX_PRED

\* C7: the menu is the subsequence of [Home, Fraud Detection, Fraud Detection
\* (RAW/PCA), Transaction Predictor, About] that keeps Home and About and keeps
\* each optional label exactly when its flag is true.
C7_MenuIsFlaggedSubsequence ==
  pc \in {"shown", "rendered"} =>
    options = SelectSeq(<<L_HOME, L_LEGACY, L_APP2, L_TX, L_ABOUT>>, KeptInMenu)

\* the menu for {Legacy: false, App2: true, TxPred: true}
C7_Witness ==
  /\ pc = "shown"
  /\ ~HAS_LEGACY /\ HAS_APP2 /\ HAS_TX_PRED
  /\ options = <<L_HOME, L_APP2, L_TX, L_ABOUT>>

\* ---------------- C8 ----------------
RendererOfLabel(label) ==
  CASE label = L_HOME -> "show_welcome_page"
    [] label = L_ABOUT -> "show_about_page"
    [] label = L_LEGACY -> "render_fraud_detection_legacy"
    [] label = L_APP2 -> "render_fraud_detection_app2"
    [] OTHER -> "render_transaction_predictor"

\* C8: a selection that is not Home, not About and not the label of an available
\* optional page gets the "unavailable" notice, with no renderer, no resolver
\* activity and no error; every other selection invokes exactly the renderer of
\* the selected label.
C8_RouterDispatch ==
  pc = "rendered" =>
    IF KeptInMenu(choice)
    THEN invoked = <<RendererOfLabel(choice)>>
    ELSE /\ invoked = <<>>
         /\ outcome = "Unavailable"
         /\ log = <<>>
         /\ ran = {}
         /\ propagated = "none"

\* the label of an unavailable page arrives from stale state
C8_Witness ==
  /\ pc = "rendered"
  /\ choice = L_LEGACY
  /\ ~HAS_LEGACY
  /\ outcome = "Unavailable"

\* ---------------- C9 ----------------
\* C9: computing the availability flags leaves the set of imported page modules
\* and executed page scripts unchanged.
C9_ProbingRunsNoPageCode ==
  [][(pc = "start" /\ pc' \in {"menu", "crashed"}) => ran' = ran]_vars

\* probing found a page through its module and a page through a script, and ran nothing
C9_Witness ==
  /\ pc = "menu"
  /\ present # {}
  /\ files # {}
  /\ HAS_LEGACY \/ HAS_APP2 \/ HAS_TX_PRED
  /\ ran = {}

\* ---------------- C10 ----------------
\* C10: the scripts a page's renderer executes are file candidates of that page.
C10_OnlyOwnScripts ==
  \A p \in Pages : Routed(p) => Range(Execs) \subseteq Range(PageFiles(p))

====
